---------------------------- MODULE Spec2Model ----------------------------
(***************************************************************************)
(* ConvenienceCalc: the scoring pipeline (algorithms.py), the Monte Carlo  *)
(* summariser (simulation.py) and the simulate command (calc/cli.py).      *)
(*                                                                         *)
(* Numbers.  Python floats are modelled by exact rationals <<n, d>> in     *)
(* lowest terms with d > 0.  Money amounts and durations are counted in    *)
(* units of 5e-10, so that the literal 1e-9 of the division guards is the  *)
(* integer 2 and the values just below, at and above the guard are small   *)
(* integers; rates (money per duration), multipliers, probabilities and    *)
(* the score are then plain ratios with their real values.                 *)
(*                                                                         *)
(* Exceptions.  A call returns [exc, val]: exc = "none" on a normal        *)
(* return, otherwise the name of the Python exception that escapes.        *)
(***************************************************************************)
EXTENDS Integers, Sequences, FiniteSets, TLC

VARIABLES
    econ,         \* TimeEconomics given to the pure functions
    ctx,          \* Context given to the pure functions
    opt,          \* Option given to the pure functions
    w_financial,  \* the w_financial argument
    ret,          \* outcome of the last call of a pure function
    mc,           \* the running monte_carlo call (simulation.py)
    sim           \* the running simulate command (calc/cli.py)

vars == <<econ, ctx, opt, w_financial, ret, mc, sim>>

---------------------------------------------------------------------------
(* Exact rational arithmetic standing for float arithmetic.                *)

RECURSIVE Gcd(_, _)
Gcd(a, b) == IF b = 0 THEN a ELSE Gcd(b, a % b)

Abs(x) == IF x < 0 THEN -x ELSE x

Rat(n, d) ==
    LET s == IF d < 0 THEN -1 ELSE 1
        g == Gcd(Abs(n), Abs(d))
    IN  <<(s * n) \div g, (s * d) \div g>>

Int2R(n) == <<n, 1>>
Zero == Int2R(0)
One  == Int2R(1)

\* Sums over the least common denominator and products reduced crosswise,
\* so that intermediate integers stay small.
RAdd(a, b) ==
    LET l == (a[2] \div Gcd(a[2], b[2])) * b[2]
    IN  Rat(a[1] * (l \div a[2]) + b[1] * (l \div b[2]), l)
RNeg(a)    == <<-a[1], a[2]>>
RSub(a, b) == RAdd(a, RNeg(b))
RMul(a, b) ==
    LET g1 == Gcd(Abs(a[1]), b[2])
        g2 == Gcd(Abs(b[1]), a[2])
    IN  Rat((a[1] \div g1) * (b[1] \div g2), (a[2] \div g2) * (b[2] \div g1))
RQuo(a, b) == RMul(a, Rat(b[2], b[1]))           \* b # Zero
RLt(a, b)  == a[1] * b[2] < b[1] * a[2]
RLe(a, b)  == a[1] * b[2] <= b[1] * a[2]

\* Python's max(a, b): the first argument unless the second is greater.
PyMax(a, b) == IF RLt(a, b) THEN b ELSE a

Ok(v)    == [exc |-> "none", val |-> v]
Raise(e) == [exc |-> e, val |-> Zero]

\* Python's float division: ZeroDivisionError on a zero divisor.
PyDiv(a, b) == IF b = Zero THEN Raise("ZeroDivisionError") ELSE Ok(RQuo(a, b))

\* d[key] on a dict literal: KeyError when the key is absent.
Lookup(table, key) ==
    IF key \in DOMAIN table THEN Ok(table[key]) ELSE Raise("KeyError")

---------------------------------------------------------------------------
(* models.py: the enumerations (by their values) and algorithms.py: the    *)
(* weight tables.                                                          *)

Urgency         == {"emergency", "urgent", "time_pressed", "normal", "relaxed"}
DayContext      == {"monday_morning", "rush_hour", "weekday", "weekend", "holiday"}
WeatherContext  == {"severe", "rain_snow", "extreme_temp", "normal"}
Availability    == {"flexible", "semi", "fixed"}
StressTolerance == {"low", "medium_low", "medium", "medium_high", "high"}

M_urgency ==
    [u \in Urgency |->
        CASE u = "emergency"    -> Rat(20, 10)
          [] u = "urgent"       -> Rat(15, 10)
          [] u = "time_pressed" -> Rat(12, 10)
          [] u = "normal"       -> Rat(10, 10)
          [] u = "relaxed"      -> Rat(8, 10)]

M_day ==
    [d \in DayContext |->
        CASE d = "monday_morning" -> Rat(13, 10)
          [] d = "rush_hour"      -> Rat(12, 10)
          [] d = "weekday"        -> Rat(10, 10)
          [] d = "weekend"        -> Rat(9, 10)
          [] d = "holiday"        -> Rat(7, 10)]

M_weather ==
    [w \in WeatherContext |->
        CASE w = "severe"       -> Rat(14, 10)
          [] w = "rain_snow"    -> Rat(12, 10)
          [] w = "extreme_temp" -> Rat(11, 10)
          [] w = "normal"       -> Rat(10, 10)]

A_availability ==
    [a \in Availability |->
        CASE a = "flexible" -> Rat(10, 10)
          [] a = "semi"     -> Rat(7, 10)
          [] a = "fixed"    -> Rat(3, 10)]

F_tolerance ==
    [t \in StressTolerance |->
        CASE t = "low"         -> Rat(20, 10)
          [] t = "medium_low"  -> Rat(15, 10)
          [] t = "medium"      -> Rat(10, 10)
          [] t = "medium_high" -> Rat(7, 10)
          [] t = "high"        -> Rat(4, 10)]

\* The literal 1e-9 of both division guards, in units of 5e-10.
EPS == 2

---------------------------------------------------------------------------
(* algorithms.py: the pure functions.                                      *)

\* hourly_rate without the max(.., 1e-9) guard.
HourlyRateNoFloor(e) ==
    LET base == PyDiv(e.annual_income, e.annual_work_hours)
    IN  IF base.exc # "none" THEN base
        ELSE Ok(RMul(base.val, RAdd(One, e.overtime_premium)))

hourly_rate(e) ==
    LET base == PyDiv(e.annual_income, PyMax(e.annual_work_hours, Int2R(EPS)))
    IN  IF base.exc # "none" THEN base
        ELSE Ok(RMul(base.val, RAdd(One, e.overtime_premium)))

\* effective_rate without the max(.., minimum_rate) floor.
EffectiveRateNoFloor(e, c) ==
    LET hr == hourly_rate(e)
    IN  IF hr.exc # "none" THEN hr
        ELSE Ok(RMul(hr.val, c.productivity_factor))

effective_rate(e, c) ==
    LET hr == hourly_rate(e)
    IN  IF hr.exc # "none" THEN hr
        ELSE Ok(RMul(PyMax(hr.val, c.minimum_rate), c.productivity_factor))

\* context_multiplier with dict.get(key, 1.0) in place of dict[key].
ContextMultiplierDefaulting(c) ==
    LET g(t, k) == IF k \in DOMAIN t THEN t[k] ELSE One
    IN  Ok(RMul(RMul(RMul(c.base_multiplier, g(M_urgency, c.urgency)),
                     g(M_day, c.day)), g(M_weather, c.weather)))

\* context_multiplier with the day and weather weights added, not multiplied.
ContextMultiplierAdditive(c) ==
    LET m_urgency == Lookup(M_urgency, c.urgency)
        m_day     == Lookup(M_day, c.day)
        m_weather == Lookup(M_weather, c.weather)
    IN  IF m_urgency.exc # "none" THEN m_urgency
        ELSE IF m_day.exc # "none" THEN m_day
        ELSE IF m_weather.exc # "none" THEN m_weather
        ELSE Ok(RMul(RMul(c.base_multiplier, m_urgency.val),
                     RSub(RAdd(m_day.val, m_weather.val), One)))

context_multiplier(c) ==
    LET m_urgency == Lookup(M_urgency, c.urgency)
        m_day     == Lookup(M_day, c.day)
        m_weather == Lookup(M_weather, c.weather)
    IN  IF m_urgency.exc # "none" THEN m_urgency
        ELSE IF m_day.exc # "none" THEN m_day
        ELSE IF m_weather.exc # "none" THEN m_weather
        ELSE Ok(RMul(RMul(RMul(c.base_multiplier, m_urgency.val),
                          m_day.val), m_weather.val))

availability_multiplier(c) == Lookup(A_availability, c.availability)

time_value(o, e, c) ==
    LET r  == effective_rate(e, c)
        cm == context_multiplier(c)
        am == availability_multiplier(c)
    IN  IF r.exc # "none" THEN r
        ELSE IF cm.exc # "none" THEN cm
        ELSE IF am.exc # "none" THEN am
        ELSE Ok(RMul(RMul(RMul(o.time_saved_hours, r.val), cm.val), am.val))

stress_tolerance_factor(tol) == Lookup(F_tolerance, tol)

\* The loop `for k, v in d.items(): acc *= v`.
RECURSIVE ProductOver(_, _)
ProductOver(f, keys) ==
    IF keys = {} THEN One
    ELSE LET k == CHOOSE x \in keys : TRUE
         IN  RMul(f[k], ProductOver(f, keys \ {k}))

stress_value(o) ==
    LET msituation == ProductOver(o.stress_multipliers, DOMAIN o.stress_multipliers)
        ftol       == stress_tolerance_factor(o.stress_tolerance)
    IN  IF ftol.exc # "none" THEN ftol
        ELSE Ok(RMul(RMul(RMul(o.stress_baseline, msituation), ftol.val),
                     o.stress_cost_per_point))

\* d.get(key, 0.0) on a catalog entry.
Get(d, key) == IF key \in DOMAIN d THEN d[key] ELSE Zero

RECURSIVE OpportunitySum(_, _)
OpportunitySum(cat, names) ==
    IF names = {} THEN Zero
    ELSE LET n == CHOOSE x \in names : TRUE
             d == cat[n]
         IN  RAdd(RMul(RMul(Get(d, "A"), Get(d, "V")), Get(d, "P")),
                  OpportunitySum(cat, names \ {n}))

opportunity_value(o) == OpportunitySum(o.opportunity_catalog, DOMAIN o.opportunity_catalog)

comfort_value(o) == RMul(o.comfort_improvement, o.comfort_weight)

reliability_value(o) ==
    RMul(RMul(o.reliability_premium, o.failure_cost), o.failure_probability)

NoDetails == [k \in {} |-> Zero]

\* A raised exception escapes master_convenience_value with no details.
Escaped(r) == [exc |-> r.exc, val |-> Zero, details |-> NoDetails]

\* The tail of master_convenience_value reporting the guarded divisor as C_base.
BreakdownReportsDivisor(b_time, b_stress, b_opp, b_comfort, b_rel, o, w) ==
    LET b_total   == RAdd(RAdd(RAdd(RAdd(b_time, b_stress), b_opp), b_comfort), b_rel)
        numerator == RSub(b_total, o.extra_cost)
        denom     == PyMax(o.base_cost, Int2R(EPS))
        q         == PyDiv(numerator, denom)
    IN  IF q.exc # "none" THEN Escaped(q)
        ELSE LET score == RMul(q.val, w)
             IN  [exc |-> "none", val |-> score,
                  details |->
                    [k \in {"B_time", "B_stress", "B_opportunity", "B_comfort",
                            "B_reliability", "B_total", "C_extra", "C_base", "score"} |->
                        CASE k = "B_time"        -> b_time
                          [] k = "B_stress"      -> b_stress
                          [] k = "B_opportunity" -> b_opp
                          [] k = "B_comfort"     -> b_comfort
                          [] k = "B_reliability" -> b_rel
                          [] k = "B_total"       -> b_total
                          [] k = "C_extra"       -> o.extra_cost
                          [] k = "C_base"        -> denom
                          [] k = "score"         -> score]]

\* The tail of master_convenience_value, lines 107-122, from the five terms.
Breakdown(b_time, b_stress, b_opp, b_comfort, b_rel, o, w) ==
    LET b_total   == RAdd(RAdd(RAdd(RAdd(b_time, b_stress), b_opp), b_comfort), b_rel)
        numerator == RSub(b_total, o.extra_cost)
        denom     == PyMax(o.base_cost, Int2R(EPS))
        q         == PyDiv(numerator, denom)
    IN  IF q.exc # "none" THEN Escaped(q)
        ELSE LET score == RMul(q.val, w)
             IN  [exc |-> "none", val |-> score,
                  details |->
                    [k \in {"B_time", "B_stress", "B_opportunity", "B_comfort",
                            "B_reliability", "B_total", "C_extra", "C_base", "score"} |->
                        CASE k = "B_time"        -> b_time
                          [] k = "B_stress"      -> b_stress
                          [] k = "B_opportunity" -> b_opp
                          [] k = "B_comfort"     -> b_comfort
                          [] k = "B_reliability" -> b_rel
                          [] k = "B_total"       -> b_total
                          [] k = "C_extra"       -> o.extra_cost
                          [] k = "C_base"        -> o.base_cost
                          [] k = "score"         -> score]]

master_convenience_value(o, e, c, w) ==
    LET b_time   == time_value(o, e, c)
        b_stress == stress_value(o)
    IN  IF b_time.exc # "none" THEN Escaped(b_time)
        ELSE IF b_stress.exc # "none" THEN Escaped(b_stress)
        ELSE Breakdown(b_time.val, b_stress.val, opportunity_value(o),
                       comfort_value(o), reliability_value(o), o, w)

\* evaluate_option wraps the pair in an EvaluationResult carrying the option.
evaluate_option(o, e, c, w) ==
    LET r == master_convenience_value(o, e, c, w)
    IN  [exc |-> r.exc, val |-> r.val, details |-> r.details, option |-> o]

---------------------------------------------------------------------------
(* simulation.py: the statistics of monte_carlo.                           *)

\* Resolution of the rational standing for a float square root.
SqrtScale == 100

\* Largest r with r * r <= n.
Isqrt(n) == CHOOSE r \in 0..n : r * r <= n /\ (r + 1) * (r + 1) > n

\* x ** 0.5 for x >= 0: exact on squares of rationals, else rounded down to
\* a multiple of 1 / SqrtScale.
RSqrt(x) ==
    LET rn == Isqrt(x[1])
        rd == Isqrt(x[2])
    IN  IF rn * rn = x[1] /\ rd * rd = x[2] THEN Rat(rn, rd)
        ELSE Rat(Isqrt((x[1] * SqrtScale * SqrtScale) \div x[2]), SqrtScale)

RECURSIVE SumSeq(_)
SumSeq(s) == IF s = <<>> THEN Zero ELSE RAdd(Head(s), SumSeq(Tail(s)))

\* statistics.fmean
fmean(s) ==
    IF s = <<>> THEN Raise("StatisticsError")
    ELSE Ok(RQuo(SumSeq(s), Int2R(Len(s))))

\* sorted(data)
RECURSIVE Sorted(_)
Sorted(s) ==
    IF s = <<>> THEN <<>>
    ELSE LET i == CHOOSE j \in 1..Len(s) : \A k \in 1..Len(s) : RLe(s[j], s[k])
         IN  <<s[i]>> \o Sorted(SubSeq(s, 1, i - 1) \o SubSeq(s, i + 1, Len(s)))

\* statistics.median
median(s) ==
    IF s = <<>> THEN Raise("StatisticsError")
    ELSE LET d == Sorted(s)
             n == Len(s)
         IN  IF n % 2 = 1 THEN Ok(d[(n \div 2) + 1])
             ELSE Ok(RQuo(RAdd(d[n \div 2], d[(n \div 2) + 1]), Int2R(2)))

RECURSIVE SumSqDev(_, _)
SumSqDev(s, m) ==
    IF s = <<>> THEN Zero
    ELSE RAdd(RMul(RSub(Head(s), m), RSub(Head(s), m)), SumSqDev(Tail(s), m))

\* statistics.pstdev: the square root of the population variance.
pstdev(s) ==
    IF s = <<>> THEN Raise("StatisticsError")
    ELSE LET m == RQuo(SumSeq(s), Int2R(Len(s)))
         IN  Ok(RSqrt(RQuo(SumSqDev(s, m), Int2R(Len(s)))))

NoSummary == [k \in {} |-> Zero]

\* The 1.96 of the 95% interval.
Z95 == Rat(196, 100)

\* monte_carlo lines 21-27 with the fallback of the one-result case set to
\* the sample-deviation convention's 1.0 instead of 0.0.
SummarizeUnitFallback(results) ==
    LET mean == fmean(results)
        med  == median(results)
    IN  IF mean.exc # "none" THEN [exc |-> mean.exc, summary |-> NoSummary]
        ELSE IF med.exc # "none" THEN [exc |-> med.exc, summary |-> NoSummary]
        ELSE LET stdev == IF Len(results) > 1 THEN pstdev(results).val ELSE One
                 half  == RMul(Z95, RQuo(stdev, PyMax(RSqrt(Int2R(Len(results))), One)))
             IN  [exc |-> "none",
                  summary |-> [mean |-> mean.val, median |-> med.val, stdev |-> stdev,
                               ci_low |-> RSub(mean.val, half),
                               ci_high |-> RAdd(mean.val, half)]]

\* monte_carlo lines 21-27 with an empty result list summarised as zeros.
SummarizeEmptyAsZero(results) ==
    LET data  == IF results = <<>> THEN <<Zero>> ELSE results
        stdev == IF Len(results) > 1 THEN pstdev(results).val ELSE Zero
        half  == RMul(Z95, RQuo(stdev, PyMax(RSqrt(Int2R(Len(results))), One)))
    IN  [exc |-> "none",
         summary |-> [mean |-> fmean(data).val, median |-> median(data).val,
                      stdev |-> stdev,
                      ci_low |-> RSub(fmean(data).val, half),
                      ci_high |-> RAdd(fmean(data).val, half)]]

\* monte_carlo lines 21-27: the summary of the collected results, or the
\* exception the statistics functions raise on an empty list.
Summarize(results) ==
    LET mean == fmean(results)
        med  == median(results)
    IN  IF mean.exc # "none" THEN [exc |-> mean.exc, summary |-> NoSummary]
        ELSE IF med.exc # "none" THEN [exc |-> med.exc, summary |-> NoSummary]
        ELSE LET stdev == IF Len(results) > 1 THEN pstdev(results).val ELSE Zero
                 half  == RMul(Z95, RQuo(stdev, PyMax(RSqrt(Int2R(Len(results))), One)))
             IN  [exc |-> "none",
                  summary |-> [mean |-> mean.val, median |-> med.val, stdev |-> stdev,
                               ci_low |-> RSub(mean.val, half),
                               ci_high |-> RAdd(mean.val, half)]]

---------------------------------------------------------------------------
(* Bounds of the explored inputs.                                          *)

\* annual_work_hours and base_cost range over -1 .. MaxUnits (units of 5e-10).
MaxUnits == 3
\* base_multiplier ranges over the halves 1/2 .. MaxMult/2.
MaxMult == 2
\* monte_carlo is called with runs in -1 .. MaxRuns.
MaxRuns == 3

\* A categorical value outside every enumeration of models.py.
Unknown == {"bogus"}

\* models.py: Option with only `name` and `base_cost` given.
DefaultOption ==
    [name |-> "plain", base_cost |-> One, extra_cost |-> Zero,
     time_saved_hours |-> Zero, commute_time_hours |-> Zero,
     productivity_rate |-> Zero, activity_value |-> Zero,
     comfort_improvement |-> Zero, comfort_weight |-> Zero,
     reliability_premium |-> Zero, failure_cost |-> Zero,
     failure_probability |-> Zero, stress_baseline |-> Zero,
     stress_cost_per_point |-> Zero, stress_tolerance |-> "medium",
     stress_multipliers |-> [k \in {} |-> One],
     opportunity_catalog |-> [k \in {} |-> [a \in {} |-> Zero]]]

\* calc/cli.py demo(): the "Taxi upgrade" option.
DemoOption ==
    [DefaultOption EXCEPT
        !.name = "Taxi upgrade",
        !.base_cost = Int2R(3),
        !.extra_cost = Int2R(12),
        !.time_saved_hours = Rat(33, 100),
        !.comfort_improvement = Rat(6, 10),
        !.comfort_weight = Int2R(10),
        !.reliability_premium = Rat(1, 10),
        !.failure_cost = Int2R(50),
        !.failure_probability = Rat(1, 10),
        !.stress_baseline = Int2R(4),
        !.stress_cost_per_point = Int2R(2),
        !.stress_tolerance = "medium_low",
        !.stress_multipliers =
            [k \in {"crowding", "unpredictability", "control"} |->
                CASE k = "crowding"         -> Rat(12, 10)
                  [] k = "unpredictability" -> Rat(13, 10)
                  [] k = "control"          -> Rat(11, 10)],
        !.opportunity_catalog =
            [k \in {"work"} |->
                [a \in {"A", "V", "P"} |->
                    CASE a = "A" -> Rat(33, 100)
                      [] a = "V" -> Int2R(20)
                      [] a = "P" -> Rat(6, 10)]]]

\* An option that saves money (negative extra_cost) and whose catalog has two
\* activities, one of them without a "P" entry.
SavingOption ==
    [DefaultOption EXCEPT
        !.name = "Saver",
        !.extra_cost = Int2R(-3),
        !.time_saved_hours = Int2R(2),
        !.stress_baseline = One,
        !.stress_cost_per_point = One,
        !.stress_tolerance = "high",
        !.opportunity_catalog =
            [k \in {"work", "rest"} |->
                IF k = "work"
                THEN [a \in {"A", "V", "P"} |->
                        CASE a = "A" -> Rat(1, 2)
                          [] a = "V" -> Int2R(4)
                          [] a = "P" -> Rat(1, 2)]
                ELSE [a \in {"A", "V"} |-> One]]]

Options == {DefaultOption, DemoOption, SavingOption}

\* models.py: Context() with every field at its default.
DefaultContext ==
    [urgency |-> "normal", day |-> "weekday", weather |-> "normal",
     availability |-> "semi", base_multiplier |-> One,
     productivity_factor |-> One, minimum_rate |-> Zero]

\* calc/cli.py demo(): the economics of the demo, in the model's units.
DemoEconomics ==
    [annual_income |-> Int2R(6), annual_work_hours |-> Int2R(3),
     overtime_premium |-> Rat(1, 10)]

NoRet == [fn |-> "none", exc |-> "none", val |-> Zero, details |-> NoDetails]

IdleMC ==
    [pc |-> "idle", fn |-> "none", runs |-> 0, results |-> <<>>, calls |-> 0,
     exc |-> "none", summary |-> NoSummary]

NoSim == [dists |-> [f \in {} |-> [k \in {} |-> <<Zero, Zero>>]],
          drawn |-> [f \in {} |-> Zero], last_opt |-> DefaultOption,
          completed |-> 0]

---------------------------------------------------------------------------
(* The pure functions of algorithms.py applied to drawn inputs.  A run    *)
(* loads its inputs and makes one call (calc/cli.py evaluate, line 25);    *)
(* the functions read only their arguments and write nothing.              *)

\* Inputs that vary the categorical fields, unknown values included.
InitCat ==
    /\ econ = DemoEconomics
    /\ \E u \in Urgency \cup Unknown, d \in DayContext \cup Unknown,
          w \in WeatherContext \cup Unknown, a \in Availability \cup Unknown,
          k \in 1..MaxMult :
            ctx = [DefaultContext EXCEPT !.urgency = u, !.day = d, !.weather = w,
                       !.availability = a, !.base_multiplier = Rat(k, 2)]
    /\ \E t \in StressTolerance \cup Unknown :
            opt = [DemoOption EXCEPT !.stress_tolerance = t]
    /\ w_financial = One
    /\ ret = NoRet
    /\ mc = IdleMC
    /\ sim = NoSim

\* Inputs that vary the numeric fields around the division guards and the
\* rate floor.
InitNum ==
    /\ \E i \in {-6, 6}, h \in -1..MaxUnits, p \in {Zero, Rat(1, 2)} :
            econ = [annual_income |-> Int2R(i), annual_work_hours |-> Int2R(h),
                    overtime_premium |-> p]
    /\ \E m \in {-4, 0, 4}, f \in {1, 2, 3} :
            ctx = [DefaultContext EXCEPT !.minimum_rate = Int2R(m),
                       !.productivity_factor = Rat(f, 2)]
    /\ \E o \in Options, b \in -1..MaxUnits : opt = [o EXCEPT !.base_cost = Int2R(b)]
    /\ w_financial \in {One, Int2R(2)}
    /\ ret = NoRet
    /\ mc = IdleMC
    /\ sim = NoSim

Returned(fn, r) == [fn |-> fn, exc |-> r.exc, val |-> r.val, details |-> NoDetails]

CallHourlyRate ==
    /\ ret = NoRet
    /\ ret' = Returned("hourly_rate", hourly_rate(econ))
    /\ UNCHANGED <<econ, ctx, opt, w_financial, mc, sim>>

CallEffectiveRate ==
    /\ ret = NoRet
    /\ ret' = Returned("effective_rate", effective_rate(econ, ctx))
    /\ UNCHANGED <<econ, ctx, opt, w_financial, mc, sim>>

CallContextMultiplier ==
    /\ ret = NoRet
    /\ ret' = Returned("context_multiplier", context_multiplier(ctx))
    /\ UNCHANGED <<econ, ctx, opt, w_financial, mc, sim>>

CallAvailabilityMultiplier ==
    /\ ret = NoRet
    /\ ret' = Returned("availability_multiplier", availability_multiplier(ctx))
    /\ UNCHANGED <<econ, ctx, opt, w_financial, mc, sim>>

CallStressToleranceFactor ==
    /\ ret = NoRet
    /\ ret' = Returned("stress_tolerance_factor",
                       stress_tolerance_factor(opt.stress_tolerance))
    /\ UNCHANGED <<econ, ctx, opt, w_financial, mc, sim>>

\* calc/cli.py evaluate: evaluate_option on the loaded configuration.
Evaluate ==
    /\ ret = NoRet
    /\ LET r == evaluate_option(opt, econ, ctx, w_financial)
       IN  ret' = [fn |-> "evaluate", exc |-> r.exc, val |-> r.val,
                   details |-> r.details]
    /\ UNCHANGED <<econ, ctx, opt, w_financial, mc, sim>>

\* The calls whose outcome depends on the categorical fields.
NextCat ==
    \/ CallContextMultiplier
    \/ CallAvailabilityMultiplier
    \/ CallStressToleranceFactor
    \/ Evaluate

\* The calls whose outcome depends on the numeric fields InitNum varies.
NextNum ==
    \/ CallHourlyRate
    \/ CallEffectiveRate
    \/ Evaluate

SpecCat == InitCat /\ [][NextCat]_vars
SpecNum == InitNum /\ [][NextNum]_vars

---------------------------------------------------------------------------
(* simulation.py: monte_carlo(run_fn, runs), one step per call of run_fn.  *)

\* Values an arbitrary run_fn returns.
Scores == {Int2R(-1), Zero, Int2R(2), Rat(7, 2)}

InitMC ==
    /\ econ = DemoEconomics
    /\ ctx = DefaultContext
    /\ opt = DemoOption
    /\ w_financial = One
    /\ ret = NoRet
    /\ mc = IdleMC
    /\ sim = NoSim

\* `for _ in range(runs)` stopping one iteration short.
LoopExhaustedEarly(m) == Len(m.results) >= m.runs - 1

\* `for _ in range(runs)` has no iteration left.
LoopExhausted(m) == Len(m.results) >= m.runs

\* A caller enters monte_carlo(run_fn, runs).
MCCall ==
    /\ mc.pc = "idle"
    /\ \E n \in -1..MaxRuns :
          mc' = [IdleMC EXCEPT !.pc = "running", !.fn = "run_fn", !.runs = n]
    /\ UNCHANGED <<econ, ctx, opt, w_financial, ret, sim>>

\* One iteration of `[run_fn() for _ in range(runs)]`: run_fn returns v.
MCRun ==
    /\ mc.pc = "running" /\ mc.fn = "run_fn"
    /\ ~LoopExhausted(mc)
    /\ \E v \in Scores :
          mc' = [mc EXCEPT !.results = Append(@, v), !.calls = @ + 1]
    /\ UNCHANGED <<econ, ctx, opt, w_financial, ret, sim>>

\* One iteration in which run_fn raises: the exception leaves monte_carlo.
MCRunRaises ==
    /\ mc.pc = "running" /\ mc.fn = "run_fn"
    /\ ~LoopExhausted(mc)
    /\ mc' = [mc EXCEPT !.pc = "raised", !.exc = "RunFnError", !.calls = @ + 1]
    /\ UNCHANGED <<econ, ctx, opt, w_financial, ret, sim>>

\* range(runs) is exhausted: lines 21-27 compute the summary and return it,
\* or a statistics function raises.
MCSummarize ==
    /\ mc.pc = "running"
    /\ LoopExhausted(mc)
    /\ LET r == Summarize(mc.results)
       IN  mc' = [mc EXCEPT !.pc = IF r.exc = "none" THEN "returned" ELSE "raised",
                            !.exc = r.exc, !.summary = r.summary]
    /\ UNCHANGED <<econ, ctx, opt, w_financial, ret, sim>>

NextMC == MCCall \/ MCRun \/ MCRunRaises \/ MCSummarize

SpecMC == InitMC /\ [][NextMC]_vars

---------------------------------------------------------------------------
(* calc/cli.py: the simulate command.                                      *)

\* Names bound in the module namespace of calc/cli.py by its imports
\* (lines 1-9; `from .models import *` brings the public names of models.py).
CliGlobals ==
    {"annotations", "json", "Path", "typer", "print", "box", "Table",
     "evaluate_option", "monte_carlo",
     "List", "Dict", "Optional", "Literal", "BaseModel", "Field", "Enum",
     "Availability", "Urgency", "DayContext", "WeatherContext", "StressTolerance",
     "ProfileFinancial", "ProfileLifestyle", "ProfileBehavioral", "UserProfile",
     "Context", "TimeEconomics", "Option", "EvaluationResult"}

\* Option fields the explored configurations give a distribution entry for.
SampledFields == {"time_saved_hours", "extra_cost"}

\* Distribution entries of the configuration: a uniform range, a normal
\* distribution, and an entry that is neither.
DistSpecs ==
    {[k \in {"uniform"} |-> <<Zero, Int2R(2)>>],
     [k \in {"normal"} |-> <<One, One>>],
     [k \in {"triangular"} |-> <<Zero, One>>]}

Configs ==
    UNION {[fs -> DistSpecs] : fs \in SUBSET SampledFields}

\* Values random.uniform(lo, hi) / random.gauss(mu, sigma) may return.
Samples(spec) ==
    IF "uniform" \in DOMAIN spec
    THEN LET lo == spec["uniform"][1]
             hi == spec["uniform"][2]
         IN  {lo, RQuo(RAdd(lo, hi), Int2R(2)), hi}
    ELSE IF "normal" \in DOMAIN spec
    THEN LET mu    == spec["normal"][1]
             sigma == spec["normal"][2]
         IN  {RSub(mu, sigma), mu, RAdd(mu, sigma)}
    ELSE {Zero}

\* The branch of sample_option that a distribution entry takes.
Sampled(spec) == "uniform" \in DOMAIN spec \/ "normal" \in DOMAIN spec

\* sample_option (lines 47-56): d is a copy of the base option's fields; each
\* entry of dists that holds "uniform" or "normal" overwrites its field with a
\* draw, any other entry falls through both tests and leaves the field as it
\* is.  The draw evaluates the name `random`, which raises NameError when the
\* module does not bind it.  The outcome does not depend on the order in
\* which the entries are visited.
sample_option(base, dists, draw) ==
    LET hit == {f \in DOMAIN dists : Sampled(dists[f])}
    IN  IF hit # {} /\ "random" \notin CliGlobals
        THEN [exc |-> "NameError", val |-> base, drawn |-> [f \in {} |-> Zero]]
        ELSE [exc |-> "none",
              val |-> [f \in DOMAIN base |-> IF f \in hit THEN draw[f] ELSE base[f]],
              drawn |-> [f \in hit |-> draw[f]]]

\* The configuration is loaded (lines 40-45); monte_carlo is not yet called.
InitSim ==
    /\ econ = DemoEconomics
    /\ ctx = DefaultContext
    /\ \E o \in Options, b \in 1..MaxUnits : opt = [o EXCEPT !.base_cost = Int2R(b)]
    /\ w_financial = One
    /\ ret = NoRet
    /\ mc = IdleMC
    /\ \E ds \in Configs :
          sim = [dists |-> ds, drawn |-> [f \in {} |-> Zero], last_opt |-> opt,
                 completed |-> 0]

\* Line 64: simulate calls monte_carlo(run_once, runs=runs).
SimCallMonteCarlo ==
    /\ mc.pc = "idle"
    /\ \E n \in 0..MaxRuns :
          mc' = [IdleMC EXCEPT !.pc = "running", !.fn = "run_once", !.runs = n]
    /\ UNCHANGED <<econ, ctx, opt, w_financial, ret, sim>>

\* One iteration of monte_carlo's loop calling run_once (lines 58-62):
\* sample_option, then master_convenience_value on the sampled option.
SimRunOnce ==
    /\ mc.pc = "running" /\ mc.fn = "run_once"
    /\ ~LoopExhausted(mc)
    /\ \E draw \in [DOMAIN sim.dists -> UNION {Samples(sp) : sp \in DistSpecs}] :
          /\ \A f \in DOMAIN sim.dists : draw[f] \in Samples(sim.dists[f])
          /\ LET s == sample_option(opt, sim.dists, draw)
                 r == master_convenience_value(s.val, econ, ctx, w_financial)
             IN  IF s.exc # "none"
                 THEN /\ mc' = [mc EXCEPT !.pc = "raised", !.exc = s.exc,
                                          !.calls = @ + 1]
                      /\ sim' = sim
                 ELSE IF r.exc # "none"
                 THEN /\ mc' = [mc EXCEPT !.pc = "raised", !.exc = r.exc,
                                          !.calls = @ + 1]
                      /\ sim' = [sim EXCEPT !.drawn = s.drawn, !.last_opt = s.val]
                 ELSE /\ mc' = [mc EXCEPT !.results = Append(@, r.val),
                                          !.calls = @ + 1]
                      /\ sim' = [sim EXCEPT !.drawn = s.drawn, !.last_opt = s.val,
                                            !.completed = @ + 1]
    /\ UNCHANGED <<econ, ctx, opt, w_financial, ret>>

NextSim == SimCallMonteCarlo \/ SimRunOnce \/ MCSummarize

SpecSim == InitSim /\ [][NextSim]_vars

---------------------------------------------------------------------------
(* Properties.                                                             *)

ValidContextCategories ==
    /\ ctx.urgency \in Urgency
    /\ ctx.day \in DayContext
    /\ ctx.weather \in WeatherContext

ValidCategories ==
    /\ ValidContextCategories
    /\ ctx.availability \in Availability
    /\ opt.stress_tolerance \in StressTolerance

\* C1: a categorical value outside its enumeration makes context_multiplier,
\* availability_multiplier and stress_tolerance_factor raise (KeyError), and
\* evaluate with them; none of these calls returns a number for such an input.
C1_UnknownCategoryRaises ==
    /\ (ret.fn = "context_multiplier" /\ ~ValidContextCategories)
          => ret.exc = "KeyError"
    /\ (ret.fn = "availability_multiplier" /\ ctx.availability \notin Availability)
          => ret.exc = "KeyError"
    /\ (ret.fn = "stress_tolerance_factor" /\ opt.stress_tolerance \notin StressTolerance)
          => ret.exc = "KeyError"
    /\ (ret.fn = "evaluate" /\ ~ValidCategories)
          => (ret.exc = "KeyError" /\ ret.details = NoDetails)

\* evaluate was called with an unknown weather, all else valid, and raised.
C1_Witness ==
    /\ ret.fn = "evaluate"
    /\ ctx.weather \notin WeatherContext
    /\ ctx.urgency \in Urgency /\ ctx.day \in DayContext
    /\ ctx.availability \in Availability
    /\ opt.stress_tolerance \in StressTolerance
    /\ ret.exc = "KeyError"

\* C7: context_multiplier is multiplicative in each categorical field: moving
\* one of urgency, day, weather from x to y gives result_y * table[x] =
\* result_x * table[y] for every value of the other fields and of
\* base_multiplier; availability does not enter the result.
C7_Multiplicative ==
    (ret.fn = "context_multiplier" /\ ret.exc = "none") =>
        /\ \A y \in Urgency :
              RMul(context_multiplier([ctx EXCEPT !.urgency = y]).val,
                   M_urgency[ctx.urgency])
                = RMul(ret.val, M_urgency[y])
        /\ \A y \in DayContext :
              RMul(context_multiplier([ctx EXCEPT !.day = y]).val, M_day[ctx.day])
                = RMul(ret.val, M_day[y])
        /\ \A y \in WeatherContext :
              RMul(context_multiplier([ctx EXCEPT !.weather = y]).val,
                   M_weather[ctx.weather])
                = RMul(ret.val, M_weather[y])
        /\ \A a \in Availability \cup Unknown :
              context_multiplier([ctx EXCEPT !.availability = a]) = Ok(ret.val)

\* context_multiplier returned 0.5 * 2.0 * 0.7 * 1.4 for an emergency on a
\* holiday in severe weather.
C7_Witness ==
    /\ ret.fn = "context_multiplier" /\ ret.exc = "none"
    /\ ctx.urgency = "emergency" /\ ctx.day = "holiday" /\ ctx.weather = "severe"
    /\ ctx.base_multiplier = Rat(1, 2)
    /\ ret.val = Rat(98, 100)

\* C6 as stated: effective_rate is never below context.minimum_rate, also
\* when productivity_factor is below 1.
C6_NeverBelowFloor ==
    ret.fn = "effective_rate" => RLe(ctx.minimum_rate, ret.val)

\* C6 amended: effective_rate returns normally; it is never below
\* minimum_rate * productivity_factor when productivity_factor >= 0, and never
\* below minimum_rate when productivity_factor >= 1 and minimum_rate >= 0.
C6_FloorBeforeProductivity ==
    ret.fn = "effective_rate" =>
        /\ ret.exc = "none"
        /\ RLe(Zero, ctx.productivity_factor)
              => RLe(RMul(ctx.minimum_rate, ctx.productivity_factor), ret.val)
        /\ (RLe(One, ctx.productivity_factor) /\ RLe(Zero, ctx.minimum_rate))
              => RLe(ctx.minimum_rate, ret.val)

\* effective_rate was called with the floor above the hourly rate and a
\* productivity factor of 1.5, and returned floor * 1.5.
C6_Witness ==
    /\ ret.fn = "effective_rate"
    /\ ctx.minimum_rate = Int2R(4)
    /\ ctx.productivity_factor = Rat(3, 2)
    /\ RLt(hourly_rate(econ).val, ctx.minimum_rate)
    /\ ret.val = Int2R(6)

\* The divisor max(v, 1e-9), written without the model's max.
GuardedDivisor(v) == IF RLe(Int2R(EPS), v) THEN v ELSE Int2R(EPS)

\* C8: hourly_rate and evaluate return normally for every annual_work_hours
\* and base_cost, non-positive ones included; the quotient is taken by
\* max(value, 1e-9), which is positive.
C8_EpsilonFloor ==
    /\ ret.fn = "hourly_rate" =>
          /\ ret.exc = "none"
          /\ RLt(Zero, GuardedDivisor(econ.annual_work_hours))
          /\ RMul(ret.val, GuardedDivisor(econ.annual_work_hours))
                = RMul(econ.annual_income, RAdd(One, econ.overtime_premium))
    /\ ret.fn = "evaluate" =>
          /\ ret.exc = "none"
          /\ DOMAIN ret.details # {}
          /\ RLt(Zero, GuardedDivisor(opt.base_cost))
          /\ RMul(ret.val, GuardedDivisor(opt.base_cost))
                = RMul(RSub(ret.details["B_total"], opt.extra_cost), w_financial)

\* evaluate returned normally with annual_work_hours = 0 and base_cost = -1.
C8_Witness ==
    /\ ret.fn = "evaluate" /\ ret.exc = "none"
    /\ econ.annual_work_hours = Zero
    /\ opt.base_cost = Int2R(-1)
    /\ opt.name = "Taxi upgrade"

BreakdownKeys ==
    {"B_time", "B_stress", "B_opportunity", "B_comfort", "B_reliability",
     "B_total", "C_extra", "C_base", "score"}

\* C9: a successful evaluate returns a breakdown with exactly the nine keys;
\* B_total is the sum of the five B_ terms, C_extra and C_base are the option's
\* costs, the score entry is the returned score, which is
\* ((B_total - C_extra) / max(C_base, 1e-9)) * w_financial; another
\* w_financial changes no entry but score.
C9_Breakdown ==
    (ret.fn = "evaluate" /\ ret.exc = "none") =>
        LET d == ret.details
        IN  /\ DOMAIN d = BreakdownKeys
            /\ d["B_total"] =
                  RAdd(d["B_time"], RAdd(d["B_stress"], RAdd(d["B_opportunity"],
                       RAdd(d["B_comfort"], d["B_reliability"]))))
            /\ d["C_extra"] = opt.extra_cost
            /\ d["C_base"] = opt.base_cost
            /\ d["score"] = ret.val
            /\ RMul(ret.val, GuardedDivisor(d["C_base"]))
                  = RMul(RSub(d["B_total"], d["C_extra"]), w_financial)
            /\ \A w2 \in {Rat(1, 2), One, Int2R(2), Int2R(3)} :
                  LET r2 == master_convenience_value(opt, econ, ctx, w2)
                  IN  /\ r2.exc = "none"
                      /\ \A k \in BreakdownKeys \ {"score"} : r2.details[k] = d[k]
                      /\ RMul(r2.val, w_financial) = RMul(ret.val, w2)

\* evaluate of the demo option with w_financial = 2 and a base_cost under the
\* guard returned the demo's stress and opportunity terms.
C9_Witness ==
    /\ ret.fn = "evaluate" /\ ret.exc = "none"
    /\ opt.name = "Taxi upgrade"
    /\ opt.base_cost = One
    /\ w_financial = Int2R(2)
    /\ ret.details["B_stress"] = Rat(20592, 1000)
    /\ ret.details["B_opportunity"] = Rat(396, 100)
    /\ ret.details["B_comfort"] = Int2R(6)
    /\ ret.details["B_reliability"] = Rat(1, 2)

\* C2: monte_carlo calls run_fn one call at a time and never more than runs
\* times; for runs >= 1 it returns a summary only once run_fn has returned
\* runs times, no call follows the summary, and the summary is that of
\* exactly the runs collected results.
C2_RunsExactly ==
    /\ [](/\ mc.calls <= (IF mc.runs > 0 THEN mc.runs ELSE 0)
          /\ (mc.pc = "returned" /\ mc.runs >= 1) =>
                /\ mc.calls = mc.runs
                /\ Len(mc.results) = mc.runs
                /\ RMul(mc.summary.mean, Int2R(mc.runs)) = SumSeq(mc.results)
                /\ mc.summary.median = median(mc.results).val
                /\ mc.summary.stdev =
                      (IF mc.runs > 1 THEN pstdev(mc.results).val ELSE Zero))
    /\ [][/\ mc'.calls \in {mc.calls, mc.calls + 1}
          /\ mc'.calls = mc.calls + 1 =>
                (mc.pc = "running" /\ mc'.summary = NoSummary
                 /\ (mc'.pc = "running" => Len(mc'.results) = Len(mc.results) + 1
                        /\ SubSeq(mc'.results, 1, Len(mc.results)) = mc.results))
          /\ (mc'.pc = "returned" /\ mc.pc # "returned") =>
                (mc.calls = mc.runs /\ mc'.calls = mc.calls
                 /\ mc'.results = mc.results)
          /\ mc.pc = "returned" => mc' = mc]_vars

\* monte_carlo(run_fn, 3) returned after run_fn gave 2, -1 and 3.5.
C2_Witness ==
    /\ mc.pc = "returned" /\ mc.fn = "run_fn"
    /\ mc.runs = 3 /\ mc.calls = 3
    /\ mc.results = <<Int2R(2), Int2R(-1), Rat(7, 2)>>
    /\ mc.summary.mean = Rat(3, 2)
    /\ mc.summary.median = Int2R(2)

\* C3: monte_carlo with runs < 1 never returns a summary: it calls run_fn
\* zero times and can only leave by raising (StatisticsError).
C3_NoRunsRaises ==
    (mc.fn = "run_fn" /\ mc.runs < 1) =>
        /\ mc.pc \in {"running", "raised"}
        /\ mc.calls = 0
        /\ mc.summary = NoSummary
        /\ mc.pc = "raised" => mc.exc = "StatisticsError"

\* monte_carlo(run_fn, 0) has raised.
C3_Witness ==
    /\ mc.fn = "run_fn" /\ mc.runs = 0
    /\ mc.pc = "raised" /\ mc.exc = "StatisticsError"

\* C5: monte_carlo(run_fn, 1) with run_fn returning s returns stdev = 0 and
\* ci_low = ci_high = mean = median = s.
C5_SingleRun ==
    (mc.pc = "returned" /\ mc.runs = 1) =>
        /\ Len(mc.results) = 1
        /\ mc.summary.stdev = Zero
        /\ mc.summary.mean = mc.results[1]
        /\ mc.summary.median = mc.results[1]
        /\ mc.summary.ci_low = mc.results[1]
        /\ mc.summary.ci_high = mc.results[1]

\* monte_carlo(run_fn, 1) returned after run_fn gave 3.5.
C5_Witness ==
    /\ mc.pc = "returned" /\ mc.fn = "run_fn" /\ mc.runs = 1
    /\ mc.results = <<Rat(7, 2)>>
    /\ mc.summary.mean = Rat(7, 2)

\* C4 as stated: when some distribution entry is neither uniform nor normal,
\* simulate fails before the first run: run_once is never invoked and no run
\* completes with the field left at its base value.
C4_MalformedRejected ==
    (\E f \in DOMAIN sim.dists : ~Sampled(sim.dists[f])) =>
        (mc.calls = 0 /\ sim.completed = 0 /\ mc.pc # "returned")

\* C10 as stated: in every completed run each field without a distribution
\* entry equals the base option's value, and each field with a distribution
\* entry holds the value drawn for it in that run.
C10_NoCarryOver ==
    sim.completed >= 1 =>
        \A f \in DOMAIN opt :
            IF f \in DOMAIN sim.dists
            THEN f \in DOMAIN sim.drawn /\ sim.last_opt[f] = sim.drawn[f]
            ELSE sim.last_opt[f] = opt[f]

=============================================================================
